---- MODULE Spec2Model ----
(***************************************************************************)
(* Book-Store: the catalog (book/views.py) and the cart / order workflow   *)
(* (cart/views.py) over the relational store (book/models.py,              *)
(* cart/models.py).                                                        *)
(*                                                                         *)
(* Every handler is a sequence of database statements.  RequestStep is one *)
(* database statement of one request together with the Python code that    *)
(* follows it up to the next statement; Run is a request executed to its   *)
(* response with no other request in between.                              *)
(*   Spec      requests are served one after the other (each action is a   *)
(*             whole handler); `last` is the response being delivered.     *)
(*   SpecConc  up to MaxInflight requests are in flight and their database *)
(*             statements interleave (the store runs in autocommit: no     *)
(*             handler opens a transaction or takes a lock).               *)
(*   SpecOrders place_order and cancel_order requests alone, interleaved.  *)
(*   SpecUsers the user directory (user/views.py): registration, login and *)
(*             the verification of an account, served one after the other. *)
(***************************************************************************)
EXTENDS Integers, Sequences, FiniteSets, TLC

VARIABLES
    books,      \* Book rows:      id -> [price, stock]
    carts,      \* CartModel rows: id -> [user, total_price, total_quantity, is_ordered]
    items,      \* CartItems rows: id -> [cart, book, quantity, price]
    nextId,     \* the AutoField sequences: [book, cart, item]
    inflight,   \* SpecConc: the requests being served (slot -> request)
    served,     \* SpecConc: how many requests have been accepted
    last,       \* Spec, SpecUsers: the response being delivered: [op, status]
    accounts    \* SpecUsers: CustomUser rows: id -> [is_verified]

vars == <<books, carts, items, nextId, inflight, served, last, accounts>>

----------------------------------------------------------------------------
(* Bounds of the model *)

MaxBooks == 2       \* books ever created
MaxCarts == 2       \* carts ever created
MaxItems == 2       \* cart lines ever created
MaxStock == 2       \* largest stock a catalog request sets
MaxPrice == 2       \* largest price a catalog request sets
MaxQty == 2         \* largest quantity an add-to-cart request carries
MaxInflight == 2    \* SpecConc: requests in flight at once
MaxServed == 4      \* SpecConc: requests accepted in one behaviour
MaxUsers == 4       \* SpecUsers: accounts ever registered

Users == {"admin", "reader"}

\* the accounts created with is_superuser set
Superusers == {"admin"}

\* request.user when the request carries no valid bearer token
AnonymousUser == "anonymous"

AllowAny(u) == TRUE

\* authentication_classes = [JWTAuthentication], permission_classes =
\* [IsAuthenticated] (cart/views.py:19-20,133-134,183-184,256-257,
\* book/views.py:32-33)
is_authenticated(u) == u \in Users

is_registered(u) == u \in Users

\* request.user.is_superuser, the catalog's gate (book/views.py:66,97,126)
is_superuser(u) == u \in Superusers

----------------------------------------------------------------------------
(* The store *)

Put(f, k, v) == [x \in DOMAIN f \cup {k} |-> IF x = k THEN v ELSE f[x]]

Drop(f, S) == [x \in DOMAIN f \ S |-> f[x]]

Min(S) == CHOOSE x \in S : \A y \in S : x <= y

RECURSIVE SumOver(_, _, _)
SumOver(rows, S, field) ==
    IF S = {} THEN 0
    ELSE LET i == Min(S) IN rows[i][field] + SumOver(rows, S \ {i}, field)

ActiveCartsOfAnyone(db, u) == {c \in DOMAIN db.carts : ~db.carts[c].is_ordered}

\* CartModel.objects.filter(user=u, is_ordered=False)
ActiveCarts(db, u) ==
    {c \in DOMAIN db.carts : db.carts[c].user = u /\ ~db.carts[c].is_ordered}

OrderedCartsOfAnyone(db, u) == {c \in DOMAIN db.carts : db.carts[c].is_ordered}

\* CartModel.objects.filter(user=u, is_ordered=True)
OrderedCarts(db, u) ==
    {c \in DOMAIN db.carts : db.carts[c].user = u /\ db.carts[c].is_ordered}

\* CartItems.objects.filter(cart=c)
ItemsOf(db, c) == {i \in DOMAIN db.items : db.items[i].cart = c}

\* CartItems.objects.filter(cart=c, book=b)
LinesFor(db, c, b) == {i \in ItemsOf(db, c) : db.items[i].book = b}

\* a queryset evaluated: the rows in primary-key order
RECURSIVE Ordered(_)
Ordered(S) == IF S = {} THEN <<>> ELSE <<Min(S)>> \o Ordered(S \ {Min(S)})

DB == [books |-> books, carts |-> carts, items |-> items, nextId |-> nextId]

EmptyDB ==
    [books |-> <<>>, carts |-> <<>>, items |-> <<>>,
     nextId |-> [book |-> 1, cart |-> 1, item |-> 1]]

\* the AutoField sequences stay within the bounds of the model
WithinBounds(db) ==
    /\ db.nextId.book <= MaxBooks + 1
    /\ db.nextId.cart <= MaxCarts + 1
    /\ db.nextId.item <= MaxItems + 1

----------------------------------------------------------------------------
(* Requests *)

NoCart == [id |-> 0, user |-> "", total_price |-> 0, total_quantity |-> 0,
           is_ordered |-> FALSE]
NoItem == [id |-> 0, cart |-> 0, book |-> 0, quantity |-> 0, price |-> 0]
NoBook == [id |-> 0, price |-> 0, stock |-> 0]

\* A request: what the client sent (op, user, book_id, given, quantity, pk,
\* price, stock), where the handler is (pc), its local variables, its
\* response status (0 until it answers) and the carts its response body
\* carries (data).  rid tells the requests in flight apart (SpecConc).
NewRequest(op, user) ==
    [op |-> op, user |-> user, rid |-> 0, pc |-> "start", status |-> 0,
     book_id |-> 0, given |-> FALSE, quantity |-> 0, pk |-> 0,
     price |-> 0, stock |-> 0,
     cart |-> NoCart, item |-> NoItem, book |-> NoBook, created |-> FALSE,
     lines |-> <<>>, idx |-> 0, data |-> <<>>]

Goto(db, r, pc) == [db |-> db, req |-> [r EXCEPT !.pc = pc]]

Respond(db, r, status) == [db |-> db, req |-> [r EXCEPT !.pc = "done", !.status = status]]

CartRow(c) == [user |-> c.user, total_price |-> c.total_price,
               total_quantity |-> c.total_quantity, is_ordered |-> c.is_ordered]

CartLocal(db, id) ==
    [id |-> id, user |-> db.carts[id].user, total_price |-> db.carts[id].total_price,
     total_quantity |-> db.carts[id].total_quantity,
     is_ordered |-> db.carts[id].is_ordered]

ItemLocal(db, id) ==
    [id |-> id, cart |-> db.items[id].cart, book |-> db.items[id].book,
     quantity |-> db.items[id].quantity, price |-> db.items[id].price]

BookLocal(db, id) ==
    [id |-> id, price |-> db.books[id].price, stock |-> db.books[id].stock]

----------------------------------------------------------------------------
(* CartsViews.get: the caller's active cart *)

\* lines 33-50: CartModel.objects.get raises DoesNotExist (answered 404,
\* "No active cart found for the user") or MultipleObjectsReturned (answered
\* 500 by `except Exception`); CartSerializer writes the cart's fields
CartGet(db, r) ==
    LET found == ActiveCarts(db, r.user) IN
    IF found = {} THEN Respond(db, r, 404)
    ELSE IF Cardinality(found) > 1 THEN Respond(db, r, 500)
    ELSE Respond(db, [r EXCEPT !.data = <<CartLocal(db, Min(found))>>], 200)

----------------------------------------------------------------------------
(* CartsViews.post: add or update a line of the caller's active cart *)

\* lines 71-85: validation, Book.objects.get, the first stock check.
\* `not book_id` / `not quantity` hold for a missing value and for 0.
AddStart(db, r) ==
    IF r.book_id = 0 \/ ~r.given \/ r.quantity = 0 THEN Respond(db, r, 400)
    ELSE IF r.book_id \notin DOMAIN db.books THEN Respond(db, r, 404)
    ELSE IF db.books[r.book_id].stock < r.quantity THEN Respond(db, r, 400)
    ELSE Goto(db, [r EXCEPT !.book = BookLocal(db, r.book_id)], "cart_get")

\* line 87, get_or_create's SELECT: MultipleObjectsReturned is answered 500
AddCartGet(db, r) ==
    LET found == ActiveCarts(db, r.user) IN
    IF Cardinality(found) > 1 THEN Respond(db, r, 500)
    ELSE IF found = {} THEN Goto(db, r, "cart_create")
    ELSE Goto(db, [r EXCEPT !.cart = CartLocal(db, Min(found))], "item_get")

\* line 87, get_or_create's INSERT
AddCartCreate(db, r) ==
    LET id == db.nextId.cart
        row == [user |-> r.user, total_price |-> 0, total_quantity |-> 0,
                is_ordered |-> FALSE]
        db2 == [db EXCEPT !.carts = Put(@, id, row), !.nextId.cart = id + 1]
    IN Goto(db2, [r EXCEPT !.cart = CartLocal(db2, id)], "item_get")

\* line 89, get_or_create's SELECT
AddItemGet(db, r) ==
    LET found == LinesFor(db, r.cart.id, r.book.id) IN
    IF Cardinality(found) > 1 THEN Respond(db, r, 500)
    ELSE IF found = {} THEN Goto(db, r, "item_create")
    ELSE Goto(db, [r EXCEPT !.item = ItemLocal(db, Min(found)), !.created = FALSE],
              "item_save")

\* line 89, get_or_create's INSERT (quantity and price take their default 0);
\* the foreign keys must name existing rows, else IntegrityError: 500
AddItemCreate(db, r) ==
    IF r.cart.id \notin DOMAIN db.carts \/ r.book.id \notin DOMAIN db.books
    THEN Respond(db, r, 500)
    ELSE
    LET id == db.nextId.item
        row == [cart |-> r.cart.id, book |-> r.book.id, quantity |-> 0, price |-> 0]
        db2 == [db EXCEPT !.items = Put(@, id, row), !.nextId.item = id + 1]
    IN Goto(db2, [r EXCEPT !.item = ItemLocal(db2, id), !.created = TRUE], "item_save")

\* lines 90-97: the line's new quantity
NewQuantity(r) == IF r.created THEN r.quantity ELSE r.item.quantity + r.quantity

LinePriceOfRequest(r, quantity) == r.book.price * r.quantity

\* line 99: cart_item.price = book.price * cart_item.quantity
LinePrice(r, quantity) == r.book.price * quantity

InsufficientForRequest(r, quantity) == r.book.stock < r.quantity

\* line 94: book.stock < new_quantity
InsufficientStock(r, quantity) == r.book.stock < quantity

\* lines 90-100: the merged quantity, the second stock check, the price and
\* cart_item.save().  quantity and price are PositiveIntegerField: the store
\* refuses a negative value (IntegrityError, answered 500).  save() is an
\* UPDATE, or an INSERT when the row is gone, which needs its foreign keys.
AddItemSave(db, r) ==
    LET q == NewQuantity(r)
        row == [cart |-> r.item.cart, book |-> r.item.book, quantity |-> q,
                price |-> LinePrice(r, q)]
    IN
    IF ~r.created /\ InsufficientStock(r, q) THEN Respond(db, r, 400)
    ELSE IF q < 0 \/ LinePrice(r, q) < 0 THEN Respond(db, r, 500)
    ELSE IF r.item.id \notin DOMAIN db.items
            /\ (r.item.cart \notin DOMAIN db.carts \/ r.item.book \notin DOMAIN db.books)
    THEN Respond(db, r, 500)
    ELSE Goto([db EXCEPT !.items = Put(@, r.item.id, row)],
              [r EXCEPT !.item.quantity = q, !.item.price = LinePrice(r, q)],
              "aggregate")

\* lines 102-107 and 161-166: the totals over the cart's lines (`or 0` when
\* the cart has none)
Aggregate(db, r) ==
    LET S == ItemsOf(db, r.cart.id) IN
    Goto(db, [r EXCEPT !.cart.total_quantity = SumOver(db.items, S, "quantity"),
                       !.cart.total_price = SumOver(db.items, S, "price")],
         "cart_save")

\* line 108: active_cart.save() writes every field of the instance
AddCartSave(db, r) ==
    Respond([db EXCEPT !.carts = Put(@, r.cart.id, CartRow(r.cart))], r,
            IF r.created THEN 201 ELSE 200)

AddStep(db, r) ==
    CASE r.pc = "start" -> AddStart(db, r)
      [] r.pc = "cart_get" -> AddCartGet(db, r)
      [] r.pc = "cart_create" -> AddCartCreate(db, r)
      [] r.pc = "item_get" -> AddItemGet(db, r)
      [] r.pc = "item_create" -> AddItemCreate(db, r)
      [] r.pc = "item_save" -> AddItemSave(db, r)
      [] r.pc = "aggregate" -> Aggregate(db, r)
      [] r.pc = "cart_save" -> AddCartSave(db, r)

----------------------------------------------------------------------------
(* CartsViewsByID.delete: remove a line of the caller's active cart *)

\* lines 148-152: `if pk` and filter(...).first()
RemoveStart(db, r) ==
    LET found == ActiveCarts(db, r.user) IN
    IF r.pk = 0 THEN Respond(db, r, 400)
    ELSE IF found = {} THEN Respond(db, r, 404)
    ELSE Goto(db, [r EXCEPT !.cart = CartLocal(db, Min(found))], "item_get")

\* lines 154-157
RemoveItemGet(db, r) ==
    LET found == LinesFor(db, r.cart.id, r.pk) IN
    IF found = {} THEN Respond(db, r, 404)
    ELSE Goto(db, [r EXCEPT !.item = ItemLocal(db, Min(found))], "item_delete")

\* line 159
RemoveItemDelete(db, r) ==
    Goto([db EXCEPT !.items = Drop(@, {r.item.id})], r, "aggregate")

\* line 167
RemoveCartSave(db, r) ==
    Respond([db EXCEPT !.carts = Put(@, r.cart.id, CartRow(r.cart))], r, 204)

RemoveStep(db, r) ==
    CASE r.pc = "start" -> RemoveStart(db, r)
      [] r.pc = "item_get" -> RemoveItemGet(db, r)
      [] r.pc = "item_delete" -> RemoveItemDelete(db, r)
      [] r.pc = "aggregate" -> Aggregate(db, r)
      [] r.pc = "cart_save" -> RemoveCartSave(db, r)

----------------------------------------------------------------------------
(* OrderViews.get: the caller's orders *)

\* lines 197-201: ordered_cart.exists()
OrderListExists(db, r) ==
    IF OrderedCarts(db, r.user) = {} THEN Respond(db, r, 404)
    ELSE Goto(db, r, "fetch")

\* lines 203-205: serializer.data evaluates the queryset
OrderListFetch(db, r) ==
    LET ids == Ordered(OrderedCarts(db, r.user))
        rows == [k \in 1..Len(ids) |-> CartLocal(db, ids[k])]
    IN Respond(db, [r EXCEPT !.data = rows], 200)

OrderListStep(db, r) ==
    CASE r.pc = "start" -> OrderListExists(db, r)
      [] r.pc = "fetch" -> OrderListFetch(db, r)

----------------------------------------------------------------------------
(* OrderViews.post: place an order for the caller's active cart *)

\* lines 221-223 and 243: filter(...).first()
PlaceStart(db, r) ==
    LET found == ActiveCarts(db, r.user) IN
    IF found = {} THEN Respond(db, r, 400)
    ELSE Goto(db, [r EXCEPT !.cart = CartLocal(db, Min(found))], "exists")

PlaceExistsUnchecked(db, r) == Goto(db, r, "fetch")

\* lines 224-227: cart_items.exists()
PlaceExists(db, r) ==
    IF ItemsOf(db, r.cart.id) = {} THEN Respond(db, r, 400)
    ELSE Goto(db, r, "fetch")

\* where the loop of lines 229-235 goes after `idx` lines
PlaceLoop(db, r, idx) ==
    IF idx > Len(r.lines) THEN Goto(db, [r EXCEPT !.idx = idx], "cart_save")
    ELSE Goto(db, [r EXCEPT !.idx = idx], "book_get")

\* line 229: `for item in cart_items` evaluates the queryset once
PlaceFetch(db, r) ==
    LET ids == Ordered(ItemsOf(db, r.cart.id))
        rows == [k \in 1..Len(ids) |-> ItemLocal(db, ids[k])]
    IN PlaceLoop(db, [r EXCEPT !.lines = rows], 1)

\* lines 230-233: item.book is loaded here (Book.DoesNotExist is answered
\* 500) and kept on the item; the check reads the loaded instance
PlaceBookGet(db, r) ==
    LET item == r.lines[r.idx] IN
    IF item.book \notin DOMAIN db.books THEN Respond(db, r, 500)
    ELSE IF item.quantity > db.books[item.book].stock THEN Respond(db, r, 400)
    ELSE Goto(db, [r EXCEPT !.book = BookLocal(db, item.book)], "book_save")

StockAfterOrderFromRow(db, r) ==
    IF r.book.id \in DOMAIN db.books
    THEN db.books[r.book.id].stock - r.lines[r.idx].quantity
    ELSE r.book.stock - r.lines[r.idx].quantity

StockAfterOrderByOne(db, r) == r.book.stock - 1

\* line 234: book.stock -= item.quantity, on the loaded instance
StockAfterOrder(db, r) == r.book.stock - r.lines[r.idx].quantity

\* line 235: book.save() writes every field of the loaded instance
PlaceBookSave(db, r) ==
    LET row == [price |-> r.book.price, stock |-> StockAfterOrder(db, r)] IN
    PlaceLoop([db EXCEPT !.books = Put(@, r.book.id, row)], r, r.idx + 1)

\* lines 237-241
PlaceCartSave(db, r) ==
    LET row == [CartRow(r.cart) EXCEPT !.is_ordered = TRUE] IN
    Respond([db EXCEPT !.carts = Put(@, r.cart.id, row)], r, 200)

PlaceStep(db, r) ==
    CASE r.pc = "start" -> PlaceStart(db, r)
      [] r.pc = "exists" -> PlaceExists(db, r)
      [] r.pc = "fetch" -> PlaceFetch(db, r)
      [] r.pc = "book_get" -> PlaceBookGet(db, r)
      [] r.pc = "book_save" -> PlaceBookSave(db, r)
      [] r.pc = "cart_save" -> PlaceCartSave(db, r)

----------------------------------------------------------------------------
(* OrderViewsByID.delete: cancel an order *)

\* lines 263-266: `if not ordered_cart` evaluates the queryset.
\* line 268: CartItems.objects.filter(cart=ordered_cart) hands a QuerySet
\* that is not sliced to one row to an exact lookup: Django raises
\* ValueError ("The QuerySet value for an exact lookup must be limited to
\* one result using slicing"), which line 278 answers with 500.  Lines
\* 270-276 are never reached.
CancelStart(db, r) ==
    IF r.pk \notin OrderedCarts(db, r.user) THEN Respond(db, r, 404)
    ELSE Respond(db, r, 500)

CancelStep(db, r) ==
    CASE r.pc = "start" -> CancelStart(db, r)

----------------------------------------------------------------------------
(* BookViewset: the catalog.  A book is its price and stock here; name,      *)
(* author and description are carried along unread by every handler.         *)

\* BookSerializer.is_valid: the required fields are there, and price and
\* stock (PositiveIntegerField) are not negative
ValidBook(r) == r.given /\ r.price >= 0 /\ r.stock >= 0

\* list, lines 45-51
BookList(db, r) == Respond(db, r, 200)

\* retrieve is ModelViewSet's (line 13): get_object's Http404 reaches the
\* framework's exception handler, which answers 404
BookRetrieve(db, r) ==
    IF r.pk \notin DOMAIN db.books THEN Respond(db, r, 404)
    ELSE Respond(db, r, 200)

\* create, lines 66-81
BookCreate(db, r) ==
    IF ~is_superuser(r.user) THEN Respond(db, r, 403)
    ELSE IF ~ValidBook(r) THEN Respond(db, r, 400)
    ELSE LET id == db.nextId.book
             row == [price |-> r.price, stock |-> r.stock]
         IN Respond([db EXCEPT !.books = Put(@, id, row), !.nextId.book = id + 1],
                    r, 201)

BookUpdateRepricingLines(db, r) ==
    IF ~is_superuser(r.user) THEN Respond(db, r, 403)
    ELSE IF r.pk \notin DOMAIN db.books THEN Respond(db, r, 500)
    ELSE IF ~ValidBook(r) THEN Respond(db, r, 400)
    ELSE Respond([db EXCEPT !.books = Put(@, r.pk, [price |-> r.price, stock |-> r.stock]),
                            !.items = [i \in DOMAIN db.items |->
                                          IF db.items[i].book = r.pk
                                          THEN [db.items[i] EXCEPT
                                                    !.price = r.price * db.items[i].quantity]
                                          ELSE db.items[i]]],
                 r, 200)

\* update, lines 97-111 (PUT, and PATCH through partial_update, which calls
\* update; line 102 does not pass `partial` on).  get_object raises
\* django.http.Http404, which is no rest_framework NotFound: line 110
\* answers 500.
BookUpdate(db, r) ==
    IF ~is_superuser(r.user) THEN Respond(db, r, 403)
    ELSE IF r.pk \notin DOMAIN db.books THEN Respond(db, r, 500)
    ELSE IF ~ValidBook(r) THEN Respond(db, r, 400)
    ELSE Respond([db EXCEPT !.books = Put(@, r.pk, [price |-> r.price, stock |-> r.stock])],
                 r, 200)

\* destroy, lines 126-138; CartItems.book is on_delete=CASCADE
\* (cart/models.py:15): the book's lines go with it
BookDestroy(db, r) ==
    IF ~is_superuser(r.user) THEN Respond(db, r, 403)
    ELSE IF r.pk \notin DOMAIN db.books THEN Respond(db, r, 500)
    ELSE Respond([db EXCEPT !.books = Drop(@, {r.pk}),
                            !.items = Drop(@, {i \in DOMAIN @ : @[i].book = r.pk})],
                 r, 204)

----------------------------------------------------------------------------
(* One database statement of a request; a request run to its response *)

\* the handler's next statement
HandlerStep(db, r) ==
    CASE r.op = "cart_get" -> CartGet(db, r)
      [] r.op = "add" -> AddStep(db, r)
      [] r.op = "order_list" -> OrderListStep(db, r)
      [] r.op = "remove" -> RemoveStep(db, r)
      [] r.op = "place" -> PlaceStep(db, r)
      [] r.op = "cancel" -> CancelStep(db, r)
      [] r.op = "book_list" -> BookList(db, r)
      [] r.op = "book_retrieve" -> BookRetrieve(db, r)
      [] r.op = "book_create" -> BookCreate(db, r)
      [] r.op \in {"book_put", "book_patch"} -> BookUpdate(db, r)
      [] r.op = "book_delete" -> BookDestroy(db, r)

\* APIView.dispatch: the request is authenticated and its permissions are
\* checked before the handler is called; IsAuthenticated refuses a request
\* without a valid bearer token with 401 (JWTAuthentication sends the
\* WWW-Authenticate header)
RequestStep(db, r) ==
    IF r.pc = "start" /\ ~is_authenticated(r.user) THEN Respond(db, r, 401)
    ELSE HandlerStep(db, r)

RECURSIVE Run(_, _)
Run(db, r) ==
    IF r.pc = "done" THEN [db |-> db, req |-> r]
    ELSE LET s == RequestStep(db, r) IN Run(s.db, s.req)

----------------------------------------------------------------------------
(* What clients send *)

BookIdInputs == 1..MaxBooks
CartIdInputs == 1..MaxCarts
QuantityInputs == (0 - 1)..MaxQty

\* a body with both fields; one without book_id; one without quantity
AddRequests ==
    {[NewRequest("add", u) EXCEPT !.book_id = b, !.given = TRUE, !.quantity = q] :
        u \in Users, b \in BookIdInputs, q \in QuantityInputs}
    \cup {[NewRequest("add", u) EXCEPT !.given = TRUE, !.quantity = 1] : u \in Users}
    \cup {[NewRequest("add", u) EXCEPT !.book_id = 1] : u \in Users}

\* the route is <int:pk>, which 0 matches
RemoveRequests ==
    {[NewRequest("remove", u) EXCEPT !.pk = b] : u \in Users, b \in BookIdInputs \cup {0}}

PlaceRequests == {NewRequest("place", u) : u \in Users}

CartGetRequests == {NewRequest("cart_get", u) : u \in Users}

OrderListRequests == {NewRequest("order_list", u) : u \in Users}

CancelRequests ==
    {[NewRequest("cancel", u) EXCEPT !.pk = c] : u \in Users, c \in CartIdInputs}

PriceInputs == 1..MaxPrice
StockInputs == {0, MaxStock}

\* a whole book: valid, or with a negative stock
BookBodies(op) ==
    {[NewRequest(op, u) EXCEPT !.given = TRUE, !.price = p, !.stock = s] :
        u \in Users, p \in PriceInputs, s \in StockInputs}
    \cup {[NewRequest(op, u) EXCEPT !.given = TRUE, !.price = 1, !.stock = 0 - 1] :
            u \in Users}

BookReadRequests ==
    {NewRequest("book_list", u) : u \in Users}
    \cup {[NewRequest("book_retrieve", u) EXCEPT !.pk = b] : u \in Users, b \in BookIdInputs}

BookCreateRequests == BookBodies("book_create")

\* PUT carries a whole book, PATCH a part of one
BookUpdateRequests ==
    {[r EXCEPT !.pk = b] : r \in BookBodies("book_put"), b \in BookIdInputs}
    \cup {[NewRequest("book_patch", u) EXCEPT !.pk = b] : u \in Users, b \in BookIdInputs}

BookDeleteRequests ==
    {[NewRequest("book_delete", u) EXCEPT !.pk = b] : u \in Users, b \in BookIdInputs}

Requests ==
    AddRequests \cup RemoveRequests \cup PlaceRequests \cup CancelRequests
    \cup CartGetRequests \cup OrderListRequests \cup BookReadRequests
    \cup BookCreateRequests \cup BookUpdateRequests \cup BookDeleteRequests

\* the same requests sent without a valid bearer token
UnauthenticatedRequests == {[r EXCEPT !.user = AnonymousUser] : r \in Requests}

----------------------------------------------------------------------------
(* Spec: requests served one after the other *)

Idle == [op |-> "none", status |-> 0]

Init ==
    /\ books = EmptyDB.books
    /\ carts = EmptyDB.carts
    /\ items = EmptyDB.items
    /\ nextId = EmptyDB.nextId
    /\ inflight = {}
    /\ served = 0
    /\ last = Idle
    /\ accounts = <<>>

Store(db) ==
    /\ WithinBounds(db)
    /\ books' = db.books
    /\ carts' = db.carts
    /\ items' = db.items
    /\ nextId' = db.nextId

\* the handler of request r, from the request's arrival to its response
Answer(r) == Run(DB, r)

Response(r) == [op |-> r.op, status |-> r.status]

GetActiveCart ==
    \E r \in CartGetRequests :
        /\ last = Idle
        /\ Store(Answer(r).db)
        /\ last' = Response(Answer(r).req)
        /\ UNCHANGED <<inflight, served, accounts>>

ListOrders ==
    \E r \in OrderListRequests :
        /\ last = Idle
        /\ Store(Answer(r).db)
        /\ last' = Response(Answer(r).req)
        /\ UNCHANGED <<inflight, served, accounts>>

AddOrUpdate ==
    \E r \in AddRequests :
        /\ last = Idle
        /\ Store(Answer(r).db)
        /\ last' = Response(Answer(r).req)
        /\ UNCHANGED <<inflight, served, accounts>>

RemoveItem ==
    \E r \in RemoveRequests :
        /\ last = Idle
        /\ Store(Answer(r).db)
        /\ last' = Response(Answer(r).req)
        /\ UNCHANGED <<inflight, served, accounts>>

PlaceOrder ==
    \E r \in PlaceRequests :
        /\ last = Idle
        /\ Store(Answer(r).db)
        /\ last' = Response(Answer(r).req)
        /\ UNCHANGED <<inflight, served, accounts>>

CancelOrder ==
    \E r \in CancelRequests :
        /\ last = Idle
        /\ Store(Answer(r).db)
        /\ last' = Response(Answer(r).req)
        /\ UNCHANGED <<inflight, served, accounts>>

ReadBooks ==
    \E r \in BookReadRequests :
        /\ last = Idle
        /\ Store(Answer(r).db)
        /\ last' = Response(Answer(r).req)
        /\ UNCHANGED <<inflight, served, accounts>>

CreateBook ==
    \E r \in BookCreateRequests :
        /\ last = Idle
        /\ Store(Answer(r).db)
        /\ last' = Response(Answer(r).req)
        /\ UNCHANGED <<inflight, served, accounts>>

UpdateBook ==
    \E r \in BookUpdateRequests :
        /\ last = Idle
        /\ Store(Answer(r).db)
        /\ last' = Response(Answer(r).req)
        /\ UNCHANGED <<inflight, served, accounts>>

DestroyBook ==
    \E r \in BookDeleteRequests :
        /\ last = Idle
        /\ Store(Answer(r).db)
        /\ last' = Response(Answer(r).req)
        /\ UNCHANGED <<inflight, served, accounts>>

\* a request without a valid bearer token, to any of the endpoints
Unauthenticated ==
    \E r \in UnauthenticatedRequests :
        /\ last = Idle
        /\ Store(Answer(r).db)
        /\ last' = Response(Answer(r).req)
        /\ UNCHANGED <<inflight, served, accounts>>

\* the response is on the wire; the server takes the next request
Deliver ==
    /\ last # Idle
    /\ last' = Idle
    /\ UNCHANGED <<books, carts, items, nextId, inflight, served, accounts>>

Next ==
    \/ GetActiveCart
    \/ ListOrders
    \/ AddOrUpdate
    \/ RemoveItem
    \/ PlaceOrder
    \/ CancelOrder
    \/ ReadBooks
    \/ CreateBook
    \/ UpdateBook
    \/ DestroyBook
    \/ Unauthenticated
    \/ Deliver

Spec == Init /\ [][Next]_vars

----------------------------------------------------------------------------
(* SpecConc: the database statements of the requests in flight interleave.  *)
(* The catalog holds one book when the first request arrives (the state     *)
(* after one CreateBook); clients add one copy at a time.  A catalog        *)
(* request is one statement.                                                *)

ConcAddRequests ==
    {[NewRequest("add", u) EXCEPT !.book_id = 1, !.given = TRUE, !.quantity = 1] :
        u \in Users}

ConcRemoveRequests == {[NewRequest("remove", u) EXCEPT !.pk = 1] : u \in Users}

ConcCancelRequests == {[NewRequest("cancel", u) EXCEPT !.pk = 1] : u \in Users}

ConcCatalogRequests ==
    {[NewRequest("book_put", "admin") EXCEPT !.pk = 1, !.given = TRUE, !.price = 1,
                                             !.stock = s] :
        s \in StockInputs \cup {0 - 1}}
    \cup {[NewRequest("book_delete", "admin") EXCEPT !.pk = 1]}

\* the stores with one book in stock and no cart
ConcSeeds ==
    {Run(EmptyDB, [NewRequest("book_create", "admin") EXCEPT
                       !.given = TRUE, !.price = 1, !.stock = s]).db :
        s \in 1..MaxStock}

InitConc ==
    /\ \E db \in ConcSeeds :
          /\ books = db.books
          /\ carts = db.carts
          /\ items = db.items
          /\ nextId = db.nextId
    /\ inflight = {}
    /\ served = 0
    /\ last = Idle
    /\ accounts = <<>>

\* a request arrives and its handler starts
Accept(r) ==
    /\ served < MaxServed
    /\ Cardinality(inflight) < MaxInflight
    /\ inflight' = inflight \cup {[r EXCEPT !.rid = served + 1]}
    /\ served' = served + 1
    /\ UNCHANGED <<books, carts, items, nextId, accounts>>

\* the next database statement of request r; its response ends it
Statement(r) ==
    LET s == RequestStep(DB, r) IN
    /\ Store(s.db)
    /\ inflight' = (inflight \ {r}) \cup (IF s.req.pc = "done" THEN {} ELSE {s.req})
    /\ UNCHANGED <<served, last, accounts>>

AcceptRead ==
    \E r \in CartGetRequests \cup OrderListRequests :
        /\ Accept(r)
        /\ UNCHANGED last

AcceptAdd ==
    \E r \in ConcAddRequests :
        /\ Accept(r)
        /\ UNCHANGED last

AcceptRemove ==
    \E r \in ConcRemoveRequests :
        /\ Accept(r)
        /\ UNCHANGED last

AcceptPlace ==
    \E r \in PlaceRequests :
        /\ Accept(r)
        /\ UNCHANGED last

AcceptCancel ==
    \E r \in ConcCancelRequests :
        /\ Accept(r)
        /\ UNCHANGED last

AcceptCatalog ==
    \E r \in ConcCatalogRequests :
        /\ Accept(r)
        /\ UNCHANGED last

ReadStatement ==
    \E r \in inflight :
        /\ r.op \in {"cart_get", "order_list"}
        /\ Statement(r)

AddStatement ==
    \E r \in inflight :
        /\ r.op = "add"
        /\ Statement(r)

RemoveStatement ==
    \E r \in inflight :
        /\ r.op = "remove"
        /\ Statement(r)

PlaceStatement ==
    \E r \in inflight :
        /\ r.op = "place"
        /\ Statement(r)

CancelStatement ==
    \E r \in inflight :
        /\ r.op = "cancel"
        /\ Statement(r)

CatalogStatement ==
    \E r \in inflight :
        /\ r.op \in {"book_put", "book_delete"}
        /\ Statement(r)

NextConc ==
    \/ AcceptRead
    \/ AcceptAdd
    \/ AcceptRemove
    \/ AcceptPlace
    \/ AcceptCancel
    \/ AcceptCatalog
    \/ AddStatement
    \/ RemoveStatement
    \/ PlaceStatement
    \/ CancelStatement
    \/ ReadStatement
    \/ CatalogStatement

SpecConc == InitConc /\ [][NextConc]_vars

\* SpecOrders: the statements of place_order and cancel_order requests
\* interleave, with no other request.  When the first of them arrives the
\* catalog holds one book, with MaxStock copies, and every user has added
\* one copy of it to their cart.
InitialStock == [b \in {1} |-> MaxStock]

RECURSIVE RunAll(_, _)
RunAll(db, requests) ==
    IF requests = <<>> THEN db
    ELSE RunAll(Run(db, Head(requests)).db, Tail(requests))

OrdersSeed ==
    RunAll(EmptyDB,
           <<[NewRequest("book_create", "admin") EXCEPT
                  !.given = TRUE, !.price = 1, !.stock = InitialStock[1]],
             [NewRequest("add", "admin") EXCEPT !.book_id = 1, !.given = TRUE, !.quantity = 1],
             [NewRequest("add", "reader") EXCEPT !.book_id = 1, !.given = TRUE, !.quantity = 1]>>)

InitOrders ==
    /\ books = OrdersSeed.books
    /\ carts = OrdersSeed.carts
    /\ items = OrdersSeed.items
    /\ nextId = OrdersSeed.nextId
    /\ inflight = {}
    /\ served = 0
    /\ last = Idle
    /\ accounts = <<>>

AcceptCancelOfAny ==
    \E r \in CancelRequests :
        /\ Accept(r)
        /\ UNCHANGED last

NextOrders ==
    \/ AcceptPlace
    \/ AcceptCancelOfAny
    \/ PlaceStatement
    \/ CancelStatement

SpecOrders == InitOrders /\ [][NextOrders]_vars

----------------------------------------------------------------------------
(* SpecUsers: the user directory.  An account is its is_verified flag here; *)
(* email, username and password are carried along by the serializers.       *)

\* CustomUser as create_user makes it (serializers.py:59-63): is_verified
\* takes the model's default
NewUser == [is_verified |-> FALSE]

\* RegisterUser.post, lines 27-54: the serializer refuses a body whose email,
\* username or password has a wrong format, or whose email is taken
Register(acc, body) ==
    IF ~body.valid THEN [accounts |-> acc, status |-> 400]
    ELSE [accounts |-> Append(acc, NewUser), status |-> 201]

\* LoginUser.post, lines 69-94: authenticate() finds the account of the
\* credentials or None; no row is written
Login(acc, body) ==
    IF body.valid /\ body.user_id \in DOMAIN acc THEN [accounts |-> acc, status |-> 200]
    ELSE [accounts |-> acc, status |-> 400]

TokenAcceptedWhenSigned(token) == token.signed

\* line 109: AccessToken(token) raises TokenError for a token that is
\* malformed, forged or of another type, and for one that has expired
TokenAccepted(token) == token.signed /\ ~token.expired

\* verify_registered_user, lines 108-124; user.save() writes the loaded row
Verify(acc, token) ==
    IF ~TokenAccepted(token) THEN [accounts |-> acc, status |-> 400]
    ELSE IF token.user_id \notin DOMAIN acc THEN [accounts |-> acc, status |-> 404]
    ELSE IF ~acc[token.user_id].is_verified
    THEN [accounts |-> [acc EXCEPT ![token.user_id].is_verified = TRUE], status |-> 200]
    ELSE [accounts |-> acc, status |-> 200]

UserIdInputs == 1..(MaxUsers + 1)

RegisterBodies == [valid : BOOLEAN]

LoginBodies == [valid : BOOLEAN, user_id : UserIdInputs]

\* the token of the URL: signed by the server or not, expired or not, and
\* the user id it carries
Tokens == [signed : BOOLEAN, expired : BOOLEAN, user_id : UserIdInputs]

InitUsers == Init

RegisterUser ==
    \E body \in RegisterBodies :
        /\ last = Idle
        /\ Len(Register(accounts, body).accounts) <= MaxUsers
        /\ accounts' = Register(accounts, body).accounts
        /\ last' = [op |-> "register", status |-> Register(accounts, body).status]
        /\ UNCHANGED <<books, carts, items, nextId, inflight, served>>

LoginUser ==
    \E body \in LoginBodies :
        /\ last = Idle
        /\ accounts' = Login(accounts, body).accounts
        /\ last' = [op |-> "login", status |-> Login(accounts, body).status]
        /\ UNCHANGED <<books, carts, items, nextId, inflight, served>>

verify_registered_user ==
    \E token \in Tokens :
        /\ last = Idle
        /\ accounts' = Verify(accounts, token).accounts
        /\ last' = [op |-> "verify", status |-> Verify(accounts, token).status]
        /\ UNCHANGED <<books, carts, items, nextId, inflight, served>>

NextUsers ==
    \/ RegisterUser
    \/ LoginUser
    \/ verify_registered_user
    \/ Deliver

SpecUsers == InitUsers /\ [][NextUsers]_vars

----------------------------------------------------------------------------
(* The claims.  Answer(r) is what the handler does with request r in the   *)
(* current store; the sequential claims quantify over the requests a       *)
(* client can send while the server is idle.                               *)

\* the caller's active cart, 0 when there is none
ActiveCartOf(u) == IF ActiveCarts(DB, u) = {} THEN 0 ELSE Min(ActiveCarts(DB, u))

\* the quantity cart c holds of book b, 0 when it has no line for it
LineQuantity(db, c, b) == SumOver(db.items, LinesFor(db, c, b), "quantity")

TotalsAreSums(db, c) ==
    /\ db.carts[c].total_quantity = SumOver(db.items, ItemsOf(db, c), "quantity")
    /\ db.carts[c].total_price = SumOver(db.items, ItemsOf(db, c), "price")

CatalogRequests == BookCreateRequests \cup BookUpdateRequests \cup BookDeleteRequests

\* C1: place_order on an active cart of two or more lines, one of which asks
\* for more than its book's stock, answers 400, leaves every book's stock
\* as it was and leaves the cart active.
C1_PlaceOrderAppliesNoPartialChange ==
    last = Idle =>
        \A r \in PlaceRequests :
            LET c == ActiveCartOf(r.user)
                short == {i \in ItemsOf(DB, c) :
                            items[i].quantity > books[items[i].book].stock}
            IN (c # 0 /\ Cardinality(ItemsOf(DB, c)) >= 2 /\ short # {}) =>
                   /\ Answer(r).req.status = 400
                   /\ Answer(r).db.books = books
                   /\ ~Answer(r).db.carts[c].is_ordered

\* C2: no book's stock is ever negative, whatever the interleaving of the
\* requests' database statements.
C2_StockNeverNegative == \A b \in DOMAIN books : books[b].stock >= 0

\* two place_order requests have both passed the stock check of the same
\* book, whose stock does not cover the two of them
C2_TwoOrdersRace ==
    \E r1 \in inflight, r2 \in inflight :
        /\ r1.rid # r2.rid
        /\ r1.op = "place" /\ r1.pc = "book_save"
        /\ r2.op = "place" /\ r2.pc = "book_save"
        /\ r1.book.id = r2.book.id
        /\ r1.book.id \in DOMAIN books
        /\ r1.lines[r1.idx].quantity + r2.lines[r2.idx].quantity
               > books[r1.book.id].stock

\* C3: every user has at most one cart with is_ordered = false, whatever the
\* interleaving.
C3_AtMostOneActiveCart == \A u \in Users : Cardinality(ActiveCarts(DB, u)) <= 1

\* C4: after every completed operation every cart's total_quantity and
\* total_price are the sums over its lines.
C4_TotalsAreSumsOfLines == \A c \in DOMAIN carts : TotalsAreSums(DB, c)

\* C5: place_order on an active cart with lines, each asking for no more
\* than its book's stock, answers 200, takes each line's quantity off its
\* book's stock, changes no other book and marks the cart ordered.
C5_PlaceOrderDecrementsStock ==
    last = Idle =>
        \A r \in PlaceRequests :
            LET c == ActiveCartOf(r.user)
                L == ItemsOf(DB, c)
            IN (c # 0 /\ L # {}
                  /\ \A i \in L : items[i].quantity <= books[items[i].book].stock) =>
                   /\ Answer(r).req.status = 200
                   /\ DOMAIN Answer(r).db.books = DOMAIN books
                   /\ \A b \in DOMAIN books :
                        /\ Answer(r).db.books[b].stock
                               = books[b].stock - LineQuantity(DB, c, b)
                        /\ Answer(r).db.books[b].price = books[b].price
                   /\ Answer(r).db.carts[c].is_ordered

\* an order of two lines has just been placed
C5_OrderPlaced ==
    /\ last = [op |-> "place", status |-> 200]
    /\ \E c \in DOMAIN carts :
          /\ carts[c].is_ordered
          /\ Cardinality(ItemsOf(DB, c)) >= 2
          /\ \A i \in ItemsOf(DB, c) : items[i].quantity >= 1

\* C6: cancel_order on the caller's ordered cart answers 200, gives each
\* line's quantity back to its book's stock and deletes the cart with its
\* lines.
C6_CancelRestoresStock ==
    last = Idle =>
        \A r \in CancelRequests :
            r.pk \in OrderedCarts(DB, r.user) =>
                /\ Answer(r).req.status = 200
                /\ r.pk \notin DOMAIN Answer(r).db.carts
                /\ ItemsOf(Answer(r).db, r.pk) = {}
                /\ \A b \in DOMAIN books :
                     Answer(r).db.books[b].stock
                         = books[b].stock + LineQuantity(DB, r.pk, b)

\* C7: add_or_update asking for more than the stock, counting what the
\* caller's line already holds, answers 400 and changes nothing.
C7_InsufficientStockChangesNothing ==
    last = Idle =>
        \A r \in AddRequests :
            (/\ r.given
             /\ r.book_id \in DOMAIN books
             /\ LineQuantity(DB, ActiveCartOf(r.user), r.book_id) + r.quantity
                    > books[r.book_id].stock) =>
                /\ Answer(r).req.status = 400
                /\ Answer(r).db = DB

\* an add has just been refused, and a cart holds a line that one more copy
\* would take over its book's stock although one copy alone is in stock
C7_AddRefused ==
    /\ last = [op |-> "add", status |-> 400]
    /\ \E c \in DOMAIN carts, i \in DOMAIN items :
          /\ ~carts[c].is_ordered
          /\ items[i].cart = c
          /\ items[i].quantity >= 1
          /\ books[items[i].book].stock >= 1
          /\ items[i].quantity + 1 > books[items[i].book].stock

\* C8: add_or_update of q > 0 copies within the stock succeeds; the line
\* then holds the previous quantity plus q, its price is the book's current
\* price times that quantity, and the cart's totals are the sums over its
\* lines.
C8_AddSetsQuantityPriceAndTotals ==
    last = Idle =>
        \A r \in AddRequests :
            LET c == ActiveCartOf(r.user)
                old == LineQuantity(DB, c, r.book_id)
                s == Answer(r)
            IN (/\ r.given
                /\ r.quantity > 0
                /\ r.book_id \in DOMAIN books
                /\ old + r.quantity <= books[r.book_id].stock) =>
                   /\ s.req.status \in {200, 201}
                   /\ Cardinality(ActiveCarts(s.db, r.user)) = 1
                   /\ c # 0 => ActiveCarts(s.db, r.user) = {c}
                   /\ LET c2 == Min(ActiveCarts(s.db, r.user))
                          L == LinesFor(s.db, c2, r.book_id)
                      IN /\ Cardinality(L) = 1
                         /\ \A i \in L :
                              /\ s.db.items[i].quantity = old + r.quantity
                              /\ s.db.items[i].price
                                     = books[r.book_id].price * (old + r.quantity)
                         /\ TotalsAreSums(s.db, c2)

\* an add has just been merged into a line, which now holds two copies of a
\* book that does not cost 1
C8_LineMerged ==
    /\ last = [op |-> "add", status |-> 200]
    /\ \E i \in DOMAIN items :
          /\ items[i].quantity = 2
          /\ books[items[i].book].price = 2
          /\ items[i].price = 4
          /\ ~carts[items[i].cart].is_ordered

\* C9: add_or_update without book_id, without quantity or with a quantity
\* <= 0 answers 400 and changes nothing; no line ever holds a quantity <= 0.
\* (The requests are those that name no book or a book of the catalog.)
C9_BadQuantityIsRejected ==
    /\ \A i \in DOMAIN items : items[i].quantity > 0
    /\ last = Idle =>
          \A r \in AddRequests :
              (/\ r.book_id \in DOMAIN books \cup {0}
               /\ r.book_id = 0 \/ ~r.given \/ r.quantity <= 0) =>
                  /\ Answer(r).req.status = 400
                  /\ Answer(r).db = DB

\* C10: catalog create, PUT, PATCH and delete by a caller who is no
\* superuser answer 403 and change no book.
C10_CatalogIsSuperuserOnly ==
    last = Idle =>
        \A r \in CatalogRequests :
            r.user \notin Superusers =>
                /\ Answer(r).req.status = 403
                /\ Answer(r).db = DB

\* a catalog request has just been refused while the catalog holds a book
\* that is on a cart line
C10_CatalogRefused ==
    /\ last.op \in {"book_create", "book_put", "book_patch", "book_delete"}
    /\ last.status = 403
    /\ \E i \in DOMAIN items : items[i].book \in DOMAIN books

\* C11: catalog update (PUT, PATCH) and delete by a superuser on a book id
\* that names no book answer 404 and change no book.
C11_MissingBookIsNotFound ==
    last = Idle =>
        \A r \in BookUpdateRequests \cup BookDeleteRequests :
            (r.user \in Superusers /\ r.pk \notin DOMAIN books) =>
                /\ Answer(r).req.status = 404
                /\ Answer(r).db.books = books

\* C12: place_order by a caller with no active cart, or whose active cart
\* has no line, answers 400; no book's stock changes and no cart's
\* is_ordered changes (nothing in the store changes).
C12_NothingToOrderIsRefused ==
    last = Idle =>
        \A r \in PlaceRequests :
            LET c == ActiveCartOf(r.user) IN
            (c = 0 \/ ItemsOf(DB, c) = {}) =>
                /\ Answer(r).req.status = 400
                /\ Answer(r).db = DB

\* a place_order has just been refused while no caller has a line to order:
\* one has an active cart without lines, another has no active cart, and
\* a book is in stock
C12_OrderRefused ==
    /\ last = [op |-> "place", status |-> 400]
    /\ \E u \in Users : ActiveCartOf(u) # 0 /\ ItemsOf(DB, ActiveCartOf(u)) = {}
    /\ \E u \in Users : ActiveCartOf(u) = 0
    /\ \A u \in Users : ActiveCartOf(u) # 0 => ItemsOf(DB, ActiveCartOf(u)) = {}
    /\ \E b \in DOMAIN books : books[b].stock > 0

\* C13: cancel_order(order_id) answers 404, changes no stock and deletes no
\* cart (changes nothing in the store) when order_id names no cart, a cart
\* of another user, or the caller's own cart that is not ordered.
C13_NotTheCallersOrderIsNotFound ==
    last = Idle =>
        \A r \in CancelRequests :
            (\/ r.pk \notin DOMAIN carts
             \/ carts[r.pk].user # r.user
             \/ ~carts[r.pk].is_ordered) =>
                /\ Answer(r).req.status = 404
                /\ Answer(r).db = DB

\* a cancel_order has just been answered 404 while the store holds an order
\* with a line (another user's order for one caller) and an active cart
C13_CancelNotFound ==
    /\ last = [op |-> "cancel", status |-> 404]
    /\ \E c \in DOMAIN carts : carts[c].is_ordered /\ ItemsOf(DB, c) # {}
    /\ \E c \in DOMAIN carts : ~carts[c].is_ordered

\* C14: in every reachable state GET /cart answers 200 with the caller's own
\* cart with is_ordered = false when the caller has an active cart, and 404
\* exactly when the caller has none; it never carries a cart of another user
\* or an ordered cart.
C14_GetCartReturnsTheActiveCart ==
    \A r \in CartGetRequests :
        LET active == ActiveCarts(DB, r.user)
            s == Answer(r).req
        IN /\ active # {} =>
                /\ s.status = 200
                /\ Len(s.data) = 1
                /\ s.data[1].id \in active
           /\ active = {} <=> s.status = 404
           /\ \A k \in DOMAIN s.data :
                /\ s.data[k].user = r.user
                /\ ~s.data[k].is_ordered
           /\ Answer(r).db = DB

\* what C15 says of remove_item request r in the current store
RemoveItemContract(r) ==
    LET c == ActiveCartOf(r.user)
        L == LinesFor(DB, c, r.pk)
        s == Answer(r)
    IN /\ (c = 0 \/ L = {}) =>
            /\ s.req.status = 404
            /\ s.db = DB
       /\ (c # 0 /\ L # {}) =>
            /\ s.req.status = 204
            /\ Cardinality(L) = 1
            /\ DOMAIN s.db.items = DOMAIN items \ L
            /\ \A i \in DOMAIN s.db.items : s.db.items[i] = items[i]
            /\ TotalsAreSums(s.db, c)
            /\ \A k \in DOMAIN carts \ {c} : s.db.carts[k] = carts[k]
            /\ DOMAIN s.db.carts = DOMAIN carts
            /\ s.db.carts[c].user = carts[c].user
            /\ ~s.db.carts[c].is_ordered
            /\ s.db.books = books

\* C15: remove_item(book_id) answers 404 and changes nothing when the caller
\* has no active cart or the active cart has no line for book_id; otherwise
\* it deletes exactly that line, leaves the cart's other lines as they were,
\* sets the cart's totals to the sums over the remaining lines (0 when none
\* remains) and changes no book's stock.
C15_RemoveItemDeletesTheLine ==
    last = Idle => \A r \in RemoveRequests : RemoveItemContract(r)

\* the same for the book ids other than 0
C15_RemoveItemOfPositiveId ==
    last = Idle => \A r \in RemoveRequests : r.pk # 0 => RemoveItemContract(r)

\* C16: a request without a valid bearer token to any catalog, cart or order
\* endpoint answers 401 and changes no book, cart or line.
C16_UnauthenticatedIsRefused ==
    last = Idle =>
        \A r \in UnauthenticatedRequests :
            /\ Answer(r).req.status = 401
            /\ Answer(r).db = DB

\* a request has just been answered 401 while the store holds a book in
\* stock, an active cart with a line and an order
C16_Refused401 ==
    /\ last.status = 401
    /\ \E b \in DOMAIN books : books[b].stock > 0
    /\ \E c \in DOMAIN carts : ~carts[c].is_ordered /\ ItemsOf(DB, c) # {}
    /\ \E c \in DOMAIN carts : carts[c].is_ordered

\* what a verify request with token t does in the current directory
VerifyContract(t) ==
    LET s == Verify(accounts, t)
        good == t.signed /\ ~t.expired
    IN /\ ~good => s.status = 400 /\ s.accounts = accounts
       /\ (good /\ t.user_id \notin DOMAIN accounts) =>
              s.status = 404 /\ s.accounts = accounts
       /\ (good /\ t.user_id \in DOMAIN accounts) =>
              /\ s.status = 200
              /\ DOMAIN s.accounts = DOMAIN accounts
              /\ s.accounts[t.user_id].is_verified
              /\ \A u \in DOMAIN accounts \ {t.user_id} : s.accounts[u] = accounts[u]
              /\ Verify(s.accounts, t) = s

\* how is_verified moves in one step of the directory
IsVerifiedStep ==
    /\ \A u \in DOMAIN accounts' \ DOMAIN accounts : ~accounts'[u].is_verified
    /\ \A u \in DOMAIN accounts :
          /\ u \in DOMAIN accounts'
          /\ accounts[u].is_verified => accounts'[u].is_verified
          /\ accounts'[u].is_verified # accounts[u].is_verified =>
                /\ last' = [op |-> "verify", status |-> 200]
                /\ \E t \in Tokens :
                      /\ t.signed /\ ~t.expired /\ t.user_id = u
                      /\ accounts' = Verify(accounts, t).accounts

\* C17: is_verified starts false, changes only through a verify request with
\* a valid unexpired token whose user id exists, and once true stays true; a
\* verify request with an invalid or expired token (400) or a token of an
\* unknown user (404) changes no account, and repeating a successful verify
\* changes nothing more.
C17_IsVerifiedOnlyRisesByValidToken ==
    /\ [](last = Idle => \A t \in Tokens : VerifyContract(t))
    /\ [][IsVerifiedStep]_vars

\* an account has just been verified while another account is not verified
C17_AccountVerified ==
    /\ last = [op |-> "verify", status |-> 200]
    /\ \E u \in DOMAIN accounts, v \in DOMAIN accounts :
          accounts[u].is_verified /\ ~accounts[v].is_verified

\* C18: a cart line's price is a snapshot: a catalog update, whatever price
\* it sets, leaves every line and every cart's totals as they were; a line's
\* price changes only in an add_or_update.
C18_LinePriceIsASnapshot ==
    /\ [](last = Idle =>
            \A r \in BookUpdateRequests :
                /\ Answer(r).db.items = items
                /\ Answer(r).db.carts = carts)
    /\ [][\A i \in DOMAIN items \cap DOMAIN items' :
             items'[i].price # items[i].price => last'.op = "add"]_vars

\* a catalog update has just changed the price of a book that is on a line
\* of an active cart: the line's price is no longer the book's price times
\* its quantity, and the cart's totals are still the sums over its lines
C18_PriceChangedUnderALine ==
    /\ last = [op |-> "book_put", status |-> 200]
    /\ \E i \in DOMAIN items :
          /\ items[i].quantity > 0
          /\ items[i].book \in DOMAIN books
          /\ items[i].price # books[items[i].book].price * items[i].quantity
          /\ ~carts[items[i].cart].is_ordered
          /\ TotalsAreSums(DB, items[i].cart)

\* the copies of book b on the lines of ordered carts
OrderedQuantity(b) ==
    SumOver(items,
            {i \in DOMAIN items : /\ items[i].book = b
                                  /\ items[i].cart \in DOMAIN carts
                                  /\ carts[items[i].cart].is_ordered},
            "quantity")

\* C19: with no catalog request, every book's stock plus the quantities of
\* its lines in ordered carts is the book's initial stock, whatever the
\* interleaving of the requests' statements (stated of the states in which
\* no place_order or cancel_order is between two of its statements).
C19_StockIsConserved ==
    (\A r \in inflight : r.op \notin {"place", "cancel"}) =>
        \A b \in DOMAIN InitialStock :
            /\ b \in DOMAIN books
            /\ books[b].stock + OrderedQuantity(b) = InitialStock[b]

\* the carts of user u and their lines
OwnedBy(db, u) ==
    LET mine == {c \in DOMAIN db.carts : db.carts[c].user = u} IN
    [carts |-> [c \in mine |-> db.carts[c]],
     items |-> [i \in {k \in DOMAIN db.items : db.items[k].cart \in mine} |-> db.items[i]]]

CartRequests ==
    AddRequests \cup RemoveRequests \cup PlaceRequests \cup CancelRequests
    \cup CartGetRequests \cup OrderListRequests

\* C20: no add_or_update, remove_item, place_order or cancel_order request
\* of a user creates, changes or deletes a cart or a line of another user,
\* and list_orders and get_active answer with the caller's own carts only.
C20_UsersAreIsolated ==
    last = Idle =>
        \A r \in CartRequests :
            /\ \A u \in Users \ {r.user} : OwnedBy(Answer(r).db, u) = OwnedBy(DB, u)
            /\ \A k \in DOMAIN Answer(r).req.data :
                   /\ Answer(r).req.data[k].user = r.user
                   /\ Answer(r).req.data[k].id \in DOMAIN carts
                   /\ carts[Answer(r).req.data[k].id].user = r.user

\* an order has just been placed while another user holds an active cart
\* with a line
C20_OrderBesideAnotherCart ==
    /\ last = [op |-> "place", status |-> 200]
    /\ \E c \in DOMAIN carts, d \in DOMAIN carts :
          /\ carts[c].is_ordered /\ ItemsOf(DB, c) # {}
          /\ ~carts[d].is_ordered /\ ItemsOf(DB, d) # {}
          /\ carts[c].user # carts[d].user

\* the same of every statement of the requests in flight: a statement that
\* changes a user's carts or lines belongs to a request of that user or to a
\* catalog request
C20_StatementsAreIsolated ==
    [][\A u \in Users :
          OwnedBy(DB, u)' # OwnedBy(DB, u) =>
              \E r \in inflight :
                  /\ r.user = u \/ r.op \in {"book_put", "book_delete"}
                  /\ Statement(r)]_vars

\* C21: in every reachable state a cart holds at most one line per book,
\* whatever the interleaving of the add_or_update requests' statements.
C21_OneLinePerBook ==
    \A c \in DOMAIN carts :
        \A i \in ItemsOf(DB, c), j \in ItemsOf(DB, c) :
            items[i].book = items[j].book => i = j

====
